---- MODULE Spec2Model ----
(***************************************************************************)
(* Model of the Orchestrator / Conversation / Agent message-routing core   *)
(* of adws (src/adws/orchestrator.py, src/adws/models/conversation.py,     *)
(* src/adws/models/agent.py, src/adws/agent.py).                           *)
(*                                                                         *)
(* The specifications of this module share its variables:                  *)
(*   SpecConv    one Conversation object driven through its own methods    *)
(*               while the clock moves on;                                 *)
(*   SpecWindow  one Conversation whose log grows and is read through      *)
(*               get_messages_for_agent;                                   *)
(*   SpecAgent   Agent objects built, posted to, saved and loaded;         *)
(*   SpecJsonl   one execute_prompt in recorded mode, from the exit of     *)
(*               the process to the response;                              *)
(*   SpecExec    one execute_prompt from its call: the probe of the tool,  *)
(*               the launch of the process, then as SpecJsonl;             *)
(*   SpecPeers   two Orchestrator instances on one project root, each      *)
(*               sending to the same conversation;                         *)
(*   SpecCrowd   one send_message to a conversation of eleven agents;      *)
(*   SpecAgain   registrations, messages and constructions that follow an  *)
(*               answer of an agent;                                       *)
(*   SpecReg     the registry entry points of the Orchestrator alone;      *)
(*   Spec        one Orchestrator over durable storage, with send_message  *)
(*               unfolded into its steps so that the states between its    *)
(*               invocations and its writes can be observed.               *)
(***************************************************************************)
EXTENDS Integers, Sequences, FiniteSets, TLC

(***************************************************************************)
(* Bounds of the model.                                                    *)
(***************************************************************************)
\* calls made on the stand-alone Conversation of SpecConv
MaxCalls == 5

\* conversations that create_conversation may create; the ids a caller may
\* pass are 1..MaxConvs+1, so one id never names a conversation
MaxConvs == 1

\* entry-point calls and restarts made on the Orchestrator
MaxOps == 3

\* length of an explicit target_agents list
MaxTargets == 2

\* length of the agent_names list given to create_conversation
MaxNamesArg == 3

\* the last point of the time line the clock of SpecConv can reach
MaxClock == 1

\* the largest limit given to get_messages_for_agent
MaxLimit == 3

\* lines of the record file the process leaves behind
MaxLines == 3

\* send_message calls each of two Orchestrators on one root makes
MaxPeerSends == 2

(***************************************************************************)
(* Values.                                                                 *)
(***************************************************************************)
\* agent names a caller may pass
Names == {"A", "B", "C"}

\* Python's None
None == "None"

\* context_summary arguments of add_participant: absent ("") or some text
Summaries == {"", "ctx"}

\* JSON null
JNull == "null"

\* conversation ids a caller may pass
ConvIds == 1..(MaxConvs + 1)

\* the text of a user message, the output of a successful invocation and the
\* diagnostic of a failed one
UserText == <<"msg">>
OkOutput == <<"out">>
ErrOutput == <<"err">>

\* how one call of execute_simple ends: a response with success, a response
\* without, or an exception that escapes it
Outcomes == {"ok", "fail", "fault"}

\* a datetime is a point of a discrete time line
\* datetime.isoformat: the text of a datetime
IsoFormat(t) == <<"iso", t>>

\* isinstance(x, str), for the values a timestamp key can hold
IsIsoString(x) == Len(x) = 2 /\ x[1] = "iso"

\* datetime.fromisoformat, with a mutation that loses the time
FromIsoFormatMutant(s) == 0

FromIsoFormat(s) == s[2]

\* AgentConfig(name, repo_path) with the defaults of its other fields,
\* built at time 0
DefaultConfig(name) ==
    [name |-> name, repo_path |-> <<"repos", name>>, description |-> "",
     language |-> "", framework |-> "", entry_points |-> <<>>,
     system_prompt |-> "", created_at |-> 0]

\* the same agent described at a later time with other values
OtherConfig(name) ==
    [name |-> name, repo_path |-> <<"repos", name>>, description |-> "d",
     language |-> "py", framework |-> "fw", entry_points |-> <<"main">>,
     system_prompt |-> "sp", created_at |-> 1]

\* the configs a caller may register
Configs == {DefaultConfig(n) : n \in Names} \cup {OtherConfig(n) : n \in Names}

\* lists of names of length at most n
SeqsUpTo(S, n) == UNION {[1..k -> S] : k \in 0..n}

\* target_agents arguments of send_message: None (not given), or a list,
\* which may be empty, repeat a name, or name a stranger to the conversation
TargetArgs ==
    {[given |-> FALSE, list |-> <<>>]} \cup
    {[given |-> TRUE, list |-> l] : l \in SeqsUpTo(Names, MaxTargets)}

VARIABLES
    \* ---- SpecConv: a stand-alone Conversation ----
    conv,       \* the Conversation object
    net,        \* the set of names with a net add, kept by set algebra
    trail,      \* the membership changes and the posts so far, in call order
    ncalls,     \* calls made so far that may change the Conversation
    clock,      \* what datetime.now() last returned; it never goes back
    cstep,      \* the last call on the Conversation: its name, arguments
                \* and result, the Conversation before it, and the last
                \* reading of the clock it covers
    \* ---- SpecJsonl, SpecExec: one execute_prompt ----
    job,        \* what the process left behind and what was made of it
    \* ---- SpecPeers: two Orchestrators on one storage root ----
    peer        \* the _conversations of each, where each stands in its
                \* send_message, and the step taken last

convVars == <<conv, net, trail, ncalls, clock, cstep, job, peer>>

VARIABLES
    \* ---- Spec: one Orchestrator and its storage root ----
    agents,     \* Orchestrator._agents: name -> Agent
    convs,      \* Orchestrator._conversations: id -> Conversation
    diskCfg,    \* agents/<name>/config.json: name -> config dict
    diskHist,   \* agents/<name>/history.json: name -> list of message dicts
    diskConv,   \* conversations/<id>.json: id -> conversation dict
    pc,         \* where the Orchestrator is: "idle", or a place in send_message
    call,       \* the locals of the send_message in progress
    last,       \* the last entry point that returned, its arguments and result
    invoked,    \* the invocations of the current send_message, in order
    wlog,       \* the durable writes of the current entry point, in order
    pre,        \* registries and files as the current entry point found them
    nops        \* entry-point calls and restarts so far

memVars == <<agents, convs>>
diskVars == <<diskCfg, diskHist, diskConv>>
orchVars == <<agents, convs, diskCfg, diskHist, diskConv, pc, call, last, invoked, wlog, pre, nops>>

vars == <<conv, net, trail, ncalls, clock, cstep, job, peer,
          agents, convs, diskCfg, diskHist, diskConv, pc, call, last, invoked, wlog, pre, nops>>

(***************************************************************************)
(* Python list helpers.                                                    *)
(***************************************************************************)
\* x in lst
In(x, lst) == \E k \in 1..Len(lst) : lst[k] = x

\* lst[start:], for any integer start: a negative start counts from the
\* end and stops at the first element, a start past the end gives []
SliceFrom(lst, start) ==
    LET n == Len(lst)
        lo == IF start < 0
              THEN (IF n + start > 0 THEN n + start ELSE 0)
              ELSE (IF start < n THEN start ELSE n)
    IN  SubSeq(lst, lo + 1, n)

\* lst.remove(x): drops the first occurrence of x (x is in lst)
ListRemove(lst, x) ==
    LET k == CHOOSE j \in 1..Len(lst) : lst[j] = x /\ \A h \in 1..(j-1) : lst[h] # x
    IN  [j \in 1..(Len(lst)-1) |-> IF j < k THEN lst[j] ELSE lst[j+1]]

\* the elements of a list, as a set
Elems(lst) == {lst[k] : k \in 1..Len(lst)}

\* no element occurs twice
NoDup(lst) == \A j, k \in 1..Len(lst) : lst[j] = lst[k] => j = k

(***************************************************************************)
(* Message (models/agent.py) and Conversation (models/conversation.py).    *)
(***************************************************************************)
\* a function with no key: an empty dict
Empty == [k \in {} |-> None]

\* Message(...): timestamp is the clock reading taken when it is built
Message(role, content, agent_id, timestamp) ==
    [role |-> role, content |-> content, agent_id |-> agent_id,
     timestamp |-> timestamp]

\* Conversation(id=...): the dataclass defaults; created_at and updated_at
\* are two readings of the clock, one after the other
NewConversation(id, r1, r2) ==
    [id |-> id, participants |-> <<>>, messages |-> <<>>,
     created_at |-> r1, updated_at |-> r2, metadata |-> Empty]

\* a mutation of Refreshed: updated_at is left as it is
RefreshedMutant(c, now) == c

\* self.updated_at = datetime.now()
Refreshed(c, now) == [c EXCEPT !.updated_at = now]

\* a mutation of add_message: the message is put in front of the log
add_messageMutant(c, m, now) == Refreshed([c EXCEPT !.messages = <<m>> \o @], now)

\* Conversation.add_message, with the clock reading it takes
add_message(c, m, now) == Refreshed([c EXCEPT !.messages = Append(@, m)], now)

\* Conversation.get_messages_for_agent: self.messages[-limit:]
get_messages_for_agent(c, agent_name, limit) == SliceFrom(c.messages, -limit)

\* the text of the join message: with the context when one was supplied
JoinContent(context_summary) ==
    IF context_summary # "" THEN <<"joined", context_summary>> ELSE <<"joined">>

\* the guard of add_participant, with a mutation of it
AddGuardMutant(c, agent_name) == TRUE

AddGuard(c, agent_name) == ~In(agent_name, c.participants)

\* Conversation.add_participant; r holds the three clock readings a call
\* that adds takes: for updated_at, for the join message, and in add_message
add_participant(c, agent_name, context_summary, r) ==
    IF AddGuard(c, agent_name)
    THEN add_message(Refreshed([c EXCEPT !.participants = Append(@, agent_name)], r[1]),
                     Message("system", JoinContent(context_summary), agent_name, r[2]),
                     r[3])
    ELSE c

\* Conversation.remove_participant, with its three clock readings
remove_participant(c, agent_name, r) ==
    IF In(agent_name, c.participants)
    THEN add_message(Refreshed([c EXCEPT !.participants = ListRemove(@, agent_name)], r[1]),
                     Message("system", <<"left">>, agent_name, r[2]),
                     r[3])
    ELSE c

(***************************************************************************)
(* The Orchestrator's state after construction on an empty storage root    *)
(* (Orchestrator.__init__): empty registries, nothing on disk.             *)
(***************************************************************************)
\* the locals of send_message when no call is in progress
NoTargets == [given |-> FALSE, list |-> <<>>]

NoCall == [cid |-> 0, target_agents |-> NoTargets, agents_to_call |-> <<>>,
           i |-> 0, responses |-> <<>>]

\* the registries and the files, as a record
Snapshot(ags, cs, dcfg, dh, dc) ==
    [agents |-> ags, convs |-> cs, diskCfg |-> dcfg, diskHist |-> dh, diskConv |-> dc]

Returned(op, args, ret) == [op |-> op, args |-> args, ret |-> ret]

OrchStart ==
    /\ agents = Empty
    /\ convs = Empty
    /\ diskCfg = Empty
    /\ diskHist = Empty
    /\ diskConv = Empty
    /\ pc = "idle"
    /\ call = NoCall
    /\ last = Returned("init", <<>>, None)
    /\ invoked = <<>>
    /\ wlog = <<>>
    /\ pre = Snapshot(agents, convs, diskCfg, diskHist, diskConv)
    /\ nops = 0

(***************************************************************************)
(* SpecConv: one Conversation that starts empty, driven through its own    *)
(* methods while the clock moves on.  net and trail are kept by the        *)
(* caller's arithmetic, not by the Conversation: a call changes            *)
(* membership when it adds a name that has no net add, or removes one      *)
(* that has.                                                               *)
(***************************************************************************)
\* n readings of the clock taken one after the other, none before the
\* reading t
Readings(t, n) ==
    {r \in [1..n -> t..MaxClock] : \A k \in 1..(n-1) : r[k] <= r[k+1]}

\* the record of a call on the Conversation
Step(op, args, ret, was, now) ==
    [op |-> op, args |-> args, ret |-> ret, was |-> was, now |-> now]

\* no execute_prompt was made
NoJob == [phase |-> "none"]

\* no second Orchestrator was constructed
NoPeers == [phase |-> "none"]

\* the three readings of an Orchestrator call, whose clock stands still
Now3 == <<clock, clock, clock>>

ConvStart ==
    /\ conv = NewConversation("c", 0, 0)
    /\ net = {}
    /\ trail = <<>>
    /\ ncalls = 0
    /\ clock = 0
    /\ cstep = Step("new", <<>>, None, conv, 0)
    /\ job = NoJob
    /\ peer = NoPeers

\* Conversation(id): created_at and updated_at are two readings
ConvInit ==
    /\ \E r \in Readings(0, 2) :
         /\ conv = NewConversation("c", r[1], r[2])
         /\ clock = r[2]
         /\ cstep = Step("new", <<>>, None, conv, r[2])
    /\ net = {}
    /\ trail = <<>>
    /\ ncalls = 0
    /\ job = NoJob
    /\ peer = NoPeers
    /\ OrchStart

ConvAddParticipant(n, s) ==
    /\ ncalls < MaxCalls
    /\ \E r \in Readings(clock, 3) :
         /\ conv' = add_participant(conv, n, s, r)
         /\ clock' = r[3]
         /\ cstep' = Step("add_participant", <<n, s>>, None, conv, r[3])
    /\ net' = net \cup {n}
    /\ trail' = IF n \in net THEN trail ELSE Append(trail, <<"join", n>>)
    /\ ncalls' = ncalls + 1
    /\ UNCHANGED <<job, peer, orchVars>>

ConvRemoveParticipant(n) ==
    /\ ncalls < MaxCalls
    /\ \E r \in Readings(clock, 3) :
         /\ conv' = remove_participant(conv, n, r)
         /\ clock' = r[3]
         /\ cstep' = Step("remove_participant", <<n>>, None, conv, r[3])
    /\ net' = net \ {n}
    /\ trail' = IF n \in net THEN Append(trail, <<"leave", n>>) ELSE trail
    /\ ncalls' = ncalls + 1
    /\ UNCHANGED <<job, peer, orchVars>>

\* the messages a caller appends: the user's, or an agent's answer
Posts == {[role |-> "user", agent_id |-> None], [role |-> "assistant", agent_id |-> "A"]}

\* add_message(Message(...)): the caller builds the message, then appends it
ConvAddMessage(post) ==
    /\ ncalls < MaxCalls
    /\ \E r \in Readings(clock, 2) :
         /\ conv' = add_message(conv, Message(post.role, UserText, post.agent_id, r[1]), r[2])
         /\ clock' = r[2]
         /\ cstep' = Step("add_message", <<post>>, None, conv, r[2])
    /\ trail' = Append(trail, <<"post", post.role>>)
    /\ ncalls' = ncalls + 1
    /\ UNCHANGED <<net, job, peer, orchVars>>

(***************************************************************************)
(* Persistence (models/agent.py, models/conversation.py): what is written  *)
(* is the to_dict form, what is read goes through from_dict.               *)
(***************************************************************************)
\* Message.to_dict, as JSON: None is written as null
MessageToDict(m) ==
    [role |-> m.role, content |-> m.content,
     agent_id |-> IF m.agent_id = None THEN JNull ELSE m.agent_id,
     timestamp |-> IsoFormat(m.timestamp)]

\* Message.from_dict: null is read as None
MessageFromDict(d) ==
    Message(d.role, d.content, IF d.agent_id = JNull THEN None ELSE d.agent_id,
            IF IsIsoString(d.timestamp) THEN FromIsoFormat(d.timestamp) ELSE d.timestamp)

MessagesToDicts(ms) == [k \in 1..Len(ms) |-> MessageToDict(ms[k])]

MessagesFromDicts(ds) == [k \in 1..Len(ds) |-> MessageFromDict(ds[k])]

\* Conversation.to_dict
ConversationToDict(c) ==
    [id |-> c.id, participants |-> c.participants,
     messages |-> MessagesToDicts(c.messages),
     created_at |-> IsoFormat(c.created_at),
     updated_at |-> IsoFormat(c.updated_at),
     metadata |-> c.metadata]

\* Conversation.from_dict
ConversationFromDict(d) ==
    [id |-> d.id, participants |-> d.participants,
     messages |-> MessagesFromDicts(d.messages),
     created_at |-> IF IsIsoString(d.created_at)
                    THEN FromIsoFormat(d.created_at) ELSE d.created_at,
     updated_at |-> IF IsIsoString(d.updated_at)
                    THEN FromIsoFormat(d.updated_at) ELSE d.updated_at,
     metadata |-> d.metadata]

\* Conversation.save: the conversations directory after the write; with a
\* mutation that leaves an existing file as it is
ConversationSaveMutant(dc, c) ==
    [k \in DOMAIN dc \cup {c.id} |-> IF k \in DOMAIN dc THEN dc[k] ELSE ConversationToDict(c)]

ConversationSave(dc, c) ==
    [k \in DOMAIN dc \cup {c.id} |-> IF k = c.id THEN ConversationToDict(c) ELSE dc[k]]

\* Conversation.load
ConversationLoad(dc, conversation_id) ==
    IF conversation_id \in DOMAIN dc THEN ConversationFromDict(dc[conversation_id]) ELSE None

\* AgentConfig.to_dict, as JSON
AgentConfigToDict(config) ==
    [name |-> config.name, repo_path |-> config.repo_path,
     description |-> config.description, language |-> config.language,
     framework |-> config.framework, entry_points |-> config.entry_points,
     system_prompt |-> config.system_prompt,
     created_at |-> IsoFormat(config.created_at)]

\* AgentConfig.from_dict
AgentConfigFromDict(data) ==
    [name |-> data.name, repo_path |-> data.repo_path,
     description |-> data.description, language |-> data.language,
     framework |-> data.framework, entry_points |-> data.entry_points,
     system_prompt |-> data.system_prompt,
     created_at |-> IF IsIsoString(data.created_at)
                    THEN FromIsoFormat(data.created_at) ELSE data.created_at]

\* a mutation of Agent(config): the new agent takes over the history of the
\* registered agent of its name
NewAgentMutant(config) ==
    [config |-> config,
     conversation_history |->
        IF config.name \in DOMAIN agents
        THEN agents[config.name].conversation_history ELSE <<>>]

\* Agent(config): a new agent has an empty history
NewAgent(config) == [config |-> config, conversation_history |-> <<>>]

\* Agent.save_config: the config files after the write
SaveConfig(dcfg, a) ==
    [k \in DOMAIN dcfg \cup {a.config.name} |->
        IF k = a.config.name THEN AgentConfigToDict(a.config) ELSE dcfg[k]]

\* a mutation of Agent.add_message: the message loses its tag
AgentAddMessageMutant(a, m) ==
    [a EXCEPT !.conversation_history = Append(@, [m EXCEPT !.agent_id = None])]

\* Agent.add_message
AgentAddMessage(a, m) == [a EXCEPT !.conversation_history = Append(@, m)]

\* Agent.save_history: the history files after the write
SaveHistory(dh, a) ==
    [k \in DOMAIN dh \cup {a.config.name} |->
        IF k = a.config.name THEN MessagesToDicts(a.conversation_history) ELSE dh[k]]

\* Agent.load, for a name whose config.json exists: the history file is
\* read when it exists; with a mutation that never reads it
AgentLoadMutant(dcfg, dh, name) ==
    [config |-> AgentConfigFromDict(dcfg[name]), conversation_history |-> <<>>]

AgentLoad(dcfg, dh, name) ==
    [config |-> AgentConfigFromDict(dcfg[name]),
     conversation_history |->
        IF name \in DOMAIN dh THEN MessagesFromDicts(dh[name]) ELSE <<>>]

\* Orchestrator._load_agents: every agent directory with a config.json,
\* indexed by the name of the directory
LoadAgents(dcfg, dh) == [n \in DOMAIN dcfg |-> AgentLoad(dcfg, dh, n)]

(***************************************************************************)
(* SpecConv, continued: the calls that read the Conversation, and the      *)
(* next-state relation.                                                    *)
(***************************************************************************)
\* save followed by load of the same id, on a directory of its own
ConvSaveLoad ==
    /\ LET file == ConversationSave(Empty, conv)
           loaded == ConversationLoad(file, conv.id)
       IN  cstep' = Step("save_load", <<>>, loaded, conv, clock)
    /\ UNCHANGED <<conv, net, trail, ncalls, clock, job, peer, orchVars>>

ConvNext ==
    \/ \E n \in Names, s \in Summaries : ConvAddParticipant(n, s)
    \/ \E n \in Names : ConvRemoveParticipant(n)
    \/ \E post \in Posts : ConvAddMessage(post)
    \/ ConvSaveLoad

SpecConv == ConvInit /\ [][ConvNext]_vars

(***************************************************************************)
(* SpecWindow: a Conversation whose log grows by add_message and is read   *)
(* by get_messages_for_agent with every name and limit.                    *)
(***************************************************************************)
ConvGetMessages(agent_name, limit) ==
    /\ cstep' = Step("get_messages_for_agent", <<agent_name, limit>>,
                     get_messages_for_agent(conv, agent_name, limit), conv, clock)
    /\ UNCHANGED <<conv, net, trail, ncalls, clock, job, peer, orchVars>>

WindowNext ==
    \/ \E post \in Posts : ConvAddMessage(post)
    \/ \E n \in Names, limit \in 0..MaxLimit : ConvGetMessages(n, limit)

SpecWindow == ConvInit /\ [][WindowNext]_vars

(***************************************************************************)
(* Orchestrator lookups.                                                   *)
(***************************************************************************)
\* Orchestrator.get_agent returns an agent (and not None)
HasAgent(ags, agent_name) == agent_name \in DOMAIN ags

\* Orchestrator.get_conversation returns a conversation (and not None):
\* it is in memory, or its file exists
HasConversation(cs, dc, conversation_id) ==
    conversation_id \in DOMAIN cs \/ conversation_id \in DOMAIN dc

\* a mutation of GetConversationIndex: an id found nowhere gets a new,
\* empty conversation (as dict.setdefault would)
GetConversationIndexMutant(cs, dc, conversation_id) ==
    IF conversation_id \in DOMAIN cs
    THEN cs
    ELSE [k \in DOMAIN cs \cup {conversation_id} |->
            IF k # conversation_id THEN cs[k]
            ELSE IF k \in DOMAIN dc THEN ConversationFromDict(dc[k])
            ELSE NewConversation(k, clock, clock)]

\* Orchestrator.get_conversation: _conversations after the call; a
\* conversation found on disk only is loaded and indexed
GetConversationIndex(cs, dc, conversation_id) ==
    IF conversation_id \in DOMAIN cs \/ conversation_id \notin DOMAIN dc
    THEN cs
    ELSE [k \in DOMAIN cs \cup {conversation_id} |->
            IF k = conversation_id THEN ConversationFromDict(dc[k]) ELSE cs[k]]

\* _conversations with conversation c put under its id
PutConversation(cs, c) ==
    [k \in DOMAIN cs \cup {c.id} |-> IF k = c.id THEN c ELSE cs[k]]

\* Conversation.get_context_for_new_participant: the no-history sentinel for
\* an empty log, else a rendering of the recent messages; never empty
ContextForNewParticipant(c) ==
    IF c.messages = <<>> THEN "no history" ELSE "summary"

(***************************************************************************)
(* Spec: the Orchestrator's entry points.  Each runs only when no other    *)
(* is in progress (single-threaded, synchronous).                          *)
(***************************************************************************)
\* an entry point is called: no other is in progress
Enter ==
    /\ pc = "idle"
    /\ nops < MaxOps
    /\ nops' = nops + 1
    /\ pre' = Snapshot(agents, convs, diskCfg, diskHist, diskConv)

\* a mutation of DictSet: a key that d has keeps its value
DictSetMutant(d, key, value) ==
    [k \in DOMAIN d \cup {key} |-> IF k \in DOMAIN d THEN d[k] ELSE value]

\* d[key] = value
DictSet(d, key, value) ==
    [k \in DOMAIN d \cup {key} |-> IF k = key THEN value ELSE d[k]]

\* Orchestrator.register_agent
RegisterAgent(config) ==
    /\ Enter
    /\ LET agent == NewAgent(config)
       IN  /\ diskCfg' = SaveConfig(diskCfg, agent)
           /\ agents' = DictSet(agents, agent.config.name, agent)
           /\ last' = Returned("register_agent", <<config>>, agent)
    /\ wlog' = << <<"config", config.name>> >>
    /\ invoked' = <<>>
    /\ UNCHANGED <<convs, diskHist, diskConv, pc, convVars>>
    /\ call' = NoCall

\* a mutation of DictDel: the whole registry is dropped
DictDelMutant(d, key) == Empty

\* del d[key], for a key that d has
DictDel(d, key) == [k \in DOMAIN d \ {key} |-> d[k]]

\* a mutation of UnregisterFinds: the test is missing
UnregisterFindsMutant(ags, agent_name) == TRUE

\* the test of unregister_agent: agent_name in self._agents
UnregisterFinds(ags, agent_name) == agent_name \in DOMAIN ags

\* Orchestrator.unregister_agent; del raises KeyError for a key the
\* registry does not have
UnregisterAgent(agent_name) ==
    /\ Enter
    /\ IF UnregisterFinds(agents, agent_name)
       THEN IF agent_name \in DOMAIN agents
            THEN /\ agents' = DictDel(agents, agent_name)
                 /\ last' = Returned("unregister_agent", <<agent_name>>, TRUE)
            ELSE /\ agents' = agents
                 /\ last' = Returned("unregister_agent/raised", <<agent_name>>, "KeyError")
       ELSE /\ agents' = agents
            /\ last' = Returned("unregister_agent", <<agent_name>>, FALSE)
    /\ wlog' = <<>>
    /\ invoked' = <<>>
    /\ UNCHANGED <<convs, diskVars, pc, convVars>>
    /\ call' = NoCall

\* an Optional result: the value, or None
Some(x) == [some |-> TRUE, value |-> x]

Nothing == [some |-> FALSE, value |-> None]

\* Orchestrator.get_agent, called from outside: self._agents.get(name)
GetAgent(agent_name) ==
    /\ Enter
    /\ last' = Returned("get_agent", <<agent_name>>,
                        IF HasAgent(agents, agent_name)
                        THEN Some(agents[agent_name]) ELSE Nothing)
    /\ wlog' = <<>>
    /\ invoked' = <<>>
    /\ call' = NoCall
    /\ UNCHANGED <<memVars, diskVars, pc, convVars>>

\* Orchestrator.get_conversation, called from outside
GetConversation(conversation_id) ==
    /\ Enter
    /\ convs' = GetConversationIndex(convs, diskConv, conversation_id)
    /\ last' = Returned("get_conversation", <<conversation_id>>,
                        IF HasConversation(convs, diskConv, conversation_id)
                        THEN Some(convs'[conversation_id]) ELSE Nothing)
    /\ wlog' = <<>>
    /\ invoked' = <<>>
    /\ call' = NoCall
    /\ UNCHANGED <<agents, diskVars, pc, convVars>>

\* utils.make_adw_id: the ids it may return, none of them in use
FreshIds(cs, dc) == (1..MaxConvs) \ (DOMAIN cs \cup DOMAIN dc)

\* the test of create_conversation's loop, with a mutation of it
CreateAddsMutant(ags, agent_name) == TRUE

CreateAdds(ags, agent_name) == HasAgent(ags, agent_name)

\* the loop of create_conversation: the names that resolve are added in turn
RECURSIVE AddKnown(_, _, _)
AddKnown(c, ags, agent_names) ==
    IF agent_names = <<>> THEN c
    ELSE AddKnown(IF CreateAdds(ags, Head(agent_names))
                  THEN add_participant(c, Head(agent_names), "", Now3)
                  ELSE c,
                  ags, Tail(agent_names))

\* Orchestrator.__init__ on a storage root that holds the config files of
\* some agents (registered by an earlier process) and nothing else:
\* _load_agents indexes them, with empty histories.
Init ==
    /\ ConvStart
    /\ diskCfg \in {[n \in S |-> AgentConfigToDict(DefaultConfig(n))] : S \in SUBSET Names}
    /\ diskHist = Empty
    /\ diskConv = Empty
    /\ agents = LoadAgents(diskCfg, diskHist)
    /\ convs = Empty
    /\ pc = "idle"
    /\ call = NoCall
    /\ last = Returned("init", <<>>, None)
    /\ invoked = <<>>
    /\ wlog = <<>>
    /\ pre = Snapshot(agents, convs, diskCfg, diskHist, diskConv)
    /\ nops = 0

\* Orchestrator.create_conversation
CreateConversation(agent_names) ==
    /\ Enter
    /\ \E conversation_id \in FreshIds(convs, diskConv) :
         LET conversation == AddKnown(NewConversation(conversation_id, clock, clock), agents, agent_names)
         IN  /\ diskConv' = ConversationSave(diskConv, conversation)
             /\ convs' = PutConversation(convs, conversation)
             /\ wlog' = << <<"conversation", conversation_id>> >>
             /\ last' = Returned("create_conversation", <<agent_names>>, conversation_id)
    /\ invoked' = <<>>
    /\ UNCHANGED <<agents, diskCfg, diskHist, pc, convVars>>
    /\ call' = NoCall

\* the test that makes invite_agent return False, with a mutation of it
InviteFailsMutant(cs, dc, ags, conversation_id, agent_name) ==
    ~HasConversation(cs, dc, conversation_id)

InviteFails(cs, dc, ags, conversation_id, agent_name) ==
    ~HasConversation(cs, dc, conversation_id) \/ ~HasAgent(ags, agent_name)

\* Orchestrator.invite_agent
InviteAgent(conversation_id, agent_name) ==
    /\ Enter
    /\ LET cs == GetConversationIndex(convs, diskConv, conversation_id)
       IN  IF InviteFails(convs, diskConv, agents, conversation_id, agent_name)
           THEN /\ convs' = cs
                /\ diskConv' = diskConv
                /\ wlog' = <<>>
                /\ last' = Returned("invite_agent", <<conversation_id, agent_name>>, FALSE)
           ELSE LET conversation == add_participant(cs[conversation_id], agent_name,
                                        ContextForNewParticipant(cs[conversation_id]),
                                        Now3)
                IN  /\ convs' = PutConversation(cs, conversation)
                    /\ diskConv' = ConversationSave(diskConv, conversation)
                    /\ wlog' = << <<"conversation", conversation_id>> >>
                    /\ last' = Returned("invite_agent", <<conversation_id, agent_name>>, TRUE)
    /\ invoked' = <<>>
    /\ UNCHANGED <<agents, diskCfg, diskHist, pc, convVars>>
    /\ call' = NoCall

\* Orchestrator.remove_agent_from_conversation
RemoveAgentFromConversation(conversation_id, agent_name) ==
    /\ Enter
    /\ LET cs == GetConversationIndex(convs, diskConv, conversation_id)
       IN  IF ~HasConversation(convs, diskConv, conversation_id)
           THEN /\ convs' = cs
                /\ diskConv' = diskConv
                /\ wlog' = <<>>
                /\ last' = Returned("remove_agent_from_conversation",
                                    <<conversation_id, agent_name>>, FALSE)
           ELSE LET conversation == remove_participant(cs[conversation_id], agent_name, Now3)
                IN  /\ convs' = PutConversation(cs, conversation)
                    /\ diskConv' = ConversationSave(diskConv, conversation)
                    /\ wlog' = << <<"conversation", conversation_id>> >>
                    /\ last' = Returned("remove_agent_from_conversation",
                                        <<conversation_id, agent_name>>, TRUE)
    /\ invoked' = <<>>
    /\ UNCHANGED <<agents, diskCfg, diskHist, pc, convVars>>
    /\ call' = NoCall

(***************************************************************************)
(* Orchestrator.send_message, step by step: entry (lookup, user message,   *)
(* target list), one step per iteration of the routing loop, the write of  *)
(* the conversation, one step per iteration of the history loop, return.   *)
(***************************************************************************)
\* lst[::-1]
Reverse(lst) == [k \in 1..Len(lst) |-> lst[Len(lst) + 1 - k]]

\* a mutation of AgentsToCall: the participants are walked backwards
AgentsToCallMutant(target_agents, participants) ==
    IF target_agents.given /\ target_agents.list # <<>>
    THEN target_agents.list
    ELSE Reverse(participants)

\* target_agents or conversation.participants: Python's "or" takes the
\* right operand when the left is None or an empty list
AgentsToCall(target_agents, participants) ==
    IF target_agents.given /\ target_agents.list # <<>>
    THEN target_agents.list
    ELSE participants

\* a mutation of ShouldInvoke: the participant test is missing
ShouldInvokeMutant(c, ags, agent_name) == HasAgent(ags, agent_name)

\* the two tests of the routing loop: neither "continue" is taken
ShouldInvoke(c, ags, agent_name) ==
    In(agent_name, c.participants) /\ HasAgent(ags, agent_name)

\* the limit get_messages_for_agent takes by default, and the number of
\* context messages _build_prompt renders
DefaultLimit == 50
PromptWindow == 10

\* a mutation of ContextMessages: the whole log is rendered
ContextMessagesMutant(c, agent_name) == c.messages

\* the messages rendered into the prompt of an invocation:
\* get_messages_for_agent(agent.name), then context_messages[-10:]
ContextMessages(c, agent_name) ==
    SliceFrom(get_messages_for_agent(c, agent_name, DefaultLimit), -PromptWindow)

\* what is recorded of an invocation
Invocation(agent_name, outcome, context) ==
    [agent_name |-> agent_name, outcome |-> outcome, context |-> context]

\* AgentResponse, as _execute_agent builds it from the invocation's result
AgentResponse(agent_name, outcome) ==
    [agent_name |-> agent_name,
     content |-> IF outcome = "ok" THEN OkOutput ELSE ErrOutput,
     success |-> (outcome = "ok")]

\* a mutation of AppendsResponse: the response is appended whatever it is
AppendsResponseMutant(response) == TRUE

\* the test that guards the two appends
AppendsResponse(response) == response.success

\* a mutation of AfterInvoke: a failed response breaks out of the loop
AfterInvokeMutant(i, n, response) == IF response.success THEN i + 1 ELSE n + 1

\* the position of the routing loop over its n names after the body has run
\* on name i: the body has no break and no return, so the next name
AfterInvoke(i, n, response) == i + 1

\* entry of send_message
SendMessage(conversation_id, target_agents) ==
    /\ Enter
    /\ invoked' = <<>>
    /\ wlog' = <<>>
    /\ LET cs == GetConversationIndex(convs, diskConv, conversation_id)
       IN  IF ~HasConversation(convs, diskConv, conversation_id)
           THEN /\ convs' = cs
                /\ pc' = "idle"
                /\ call' = NoCall
                /\ last' = Returned("send_message", <<conversation_id, target_agents>>, <<>>)
           ELSE LET conversation == add_message(cs[conversation_id],
                                                Message("user", UserText, None, clock),
                                                clock)
                    agents_to_call == AgentsToCall(target_agents, conversation.participants)
                IN  /\ convs' = PutConversation(cs, conversation)
                    /\ pc' = "loop"
                    /\ call' = [cid |-> conversation_id, target_agents |-> target_agents,
                                agents_to_call |-> agents_to_call, i |-> 1,
                                responses |-> <<>>]
                    /\ last' = Returned("send_message/running",
                                        <<conversation_id, target_agents>>, <<>>)
    /\ UNCHANGED <<agents, diskVars, convVars>>

\* an iteration of the routing loop that takes a "continue"
SendSkip ==
    /\ pc = "loop"
    /\ call.i <= Len(call.agents_to_call)
    /\ ~ShouldInvoke(convs[call.cid], agents, call.agents_to_call[call.i])
    /\ call' = [call EXCEPT !.i = @ + 1]
    /\ UNCHANGED <<memVars, diskVars, pc, last, invoked, wlog, pre, nops, convVars>>

\* an iteration of the routing loop that invokes the agent; the invocation
\* blocks until it has produced its outcome
SendInvoke(outcome) ==
    /\ pc = "loop"
    /\ call.i <= Len(call.agents_to_call)
    /\ LET agent_name == call.agents_to_call[call.i]
           response == AgentResponse(agent_name, outcome)
           agent_message == Message("assistant", response.content, agent_name, clock)
       IN  /\ ShouldInvoke(convs[call.cid], agents, agent_name)
           /\ invoked' = Append(invoked, Invocation(agent_name, outcome,
                                    ContextMessages(convs[call.cid], agent_name)))
           /\ IF outcome = "fault"
              THEN \* the exception leaves send_message
                   /\ pc' = "idle"
                   /\ call' = call
                   /\ last' = Returned("send_message/raised", last.args, <<>>)
                   /\ UNCHANGED memVars
              ELSE /\ pc' = pc
                   /\ last' = last
                   /\ call' = [call EXCEPT
                                !.i = AfterInvoke(@, Len(call.agents_to_call), response),
                                !.responses = Append(@, response)]
                   /\ IF AppendsResponse(response)
                      THEN /\ convs' = [convs EXCEPT ![call.cid] = add_message(@, agent_message, clock)]
                           /\ agents' = [agents EXCEPT ![agent_name] =
                                            AgentAddMessage(@, agent_message)]
                      ELSE UNCHANGED memVars
    /\ UNCHANGED <<diskVars, wlog, pre, nops, convVars>>

\* after the routing loop: conversation.save
SendSaveConversation ==
    /\ pc = "loop"
    /\ call.i > Len(call.agents_to_call)
    /\ diskConv' = ConversationSave(diskConv, convs[call.cid])
    /\ wlog' = Append(wlog, <<"conversation", call.cid>>)
    /\ pc' = "save_histories"
    /\ call' = [call EXCEPT !.i = 1]
    /\ UNCHANGED <<memVars, diskCfg, diskHist, last, invoked, pre, nops, convVars>>

\* an iteration of the history loop: agent.save_history when the name resolves
SendSaveHistory ==
    /\ pc = "save_histories"
    /\ call.i <= Len(call.agents_to_call)
    /\ LET agent_name == call.agents_to_call[call.i]
       IN  IF HasAgent(agents, agent_name)
           THEN /\ diskHist' = SaveHistory(diskHist, agents[agent_name])
                /\ wlog' = Append(wlog, <<"history", agent_name>>)
           ELSE UNCHANGED <<diskHist, wlog>>
    /\ call' = [call EXCEPT !.i = @ + 1]
    /\ UNCHANGED <<memVars, diskCfg, diskConv, pc, last, invoked, pre, nops, convVars>>

\* return responses
SendReturn ==
    /\ pc = "save_histories"
    /\ call.i > Len(call.agents_to_call)
    /\ pc' = "idle"
    /\ call' = call
    /\ last' = Returned("send_message", last.args, call.responses)
    /\ UNCHANGED <<memVars, diskVars, invoked, wlog, pre, nops, convVars>>

\* a mutation of CommandFinds: the test is missing
CommandFindsMutant(ags, agent_name) == TRUE

\* the test of execute_command: get_agent returned an agent
CommandFinds(ags, agent_name) == HasAgent(ags, agent_name)

\* the response of execute_command for a name that is not registered
NotFoundResponse(agent_name) ==
    [agent_name |-> agent_name, content |-> <<"not found", agent_name>>,
     success |-> FALSE]

\* Orchestrator.execute_command: one invocation outside any conversation.
\* Reading repo_path of None raises AttributeError before any invocation.
ExecuteCommand(agent_name, outcome) ==
    /\ Enter
    /\ IF ~CommandFinds(agents, agent_name)
       THEN /\ invoked' = <<>>
            /\ last' = Returned("execute_command", <<agent_name>>,
                                NotFoundResponse(agent_name))
       ELSE IF ~HasAgent(agents, agent_name)
       THEN /\ invoked' = <<>>
            /\ last' = Returned("execute_command/raised", <<agent_name>>,
                                NotFoundResponse(agent_name))
       ELSE /\ invoked' = <<Invocation(agent_name, outcome, <<>>)>>
            /\ last' = IF outcome = "fault"
                       THEN Returned("execute_command/raised", <<agent_name>>,
                                     AgentResponse(agent_name, outcome))
                       ELSE Returned("execute_command", <<agent_name>>,
                                     AgentResponse(agent_name, outcome))
    /\ wlog' = <<>>
    /\ call' = NoCall
    /\ UNCHANGED <<memVars, diskVars, pc, convVars>>

\* The process ends at any point (a crash, or a plain exit) and a new
\* Orchestrator is constructed on the same root: Orchestrator.__init__ with
\* _load_agents.  Memory is lost, the files stay.
Restart ==
    /\ nops < MaxOps
    /\ nops' = nops + 1
    /\ agents' = LoadAgents(diskCfg, diskHist)
    /\ convs' = Empty
    /\ pre' = Snapshot(agents', convs', diskCfg, diskHist, diskConv)
    /\ pc' = "idle"
    /\ call' = NoCall
    /\ last' = Returned("init", <<>>, None)
    /\ invoked' = <<>>
    /\ wlog' = <<>>
    /\ UNCHANGED <<diskVars, convVars>>

Next ==
    \/ \E n \in Names : RegisterAgent(DefaultConfig(n))
    \/ \E n \in Names : UnregisterAgent(n)
    \/ \E n \in Names : GetAgent(n)
    \/ \E c \in ConvIds : GetConversation(c)
    \/ \E l \in SeqsUpTo(Names, MaxNamesArg) : CreateConversation(l)
    \/ \E c \in ConvIds, n \in Names : InviteAgent(c, n)
    \/ \E c \in ConvIds, n \in Names : RemoveAgentFromConversation(c, n)
    \/ \E c \in ConvIds, t \in TargetArgs : SendMessage(c, t)
    \/ SendSkip
    \/ \E o \in Outcomes : SendInvoke(o)
    \/ SendSaveConversation
    \/ SendSaveHistory
    \/ SendReturn
    \/ \E n \in Names, o \in Outcomes : ExecuteCommand(n, o)
    \/ Restart

Spec == Init /\ [][Next]_vars

(***************************************************************************)
(* SpecAgent: Agent objects a caller builds, posts to, saves and loads     *)
(* under one agents directory that starts empty.  agents holds the         *)
(* objects in memory by name; a message posted carries the time of the     *)
(* call, which is the number of calls made before it.                      *)
(***************************************************************************)
\* calls that change an Agent or a file
MaxAgentCalls == 5

\* the names of the Agent objects built; a load may name any of Names
AgentNames == {"A", "B"}

AgentEnter ==
    /\ nops < MaxAgentCalls
    /\ nops' = nops + 1
    /\ pre' = Snapshot(agents, convs, diskCfg, diskHist, diskConv)

\* Agent(config)
AgentCreate(config) ==
    /\ AgentEnter
    /\ agents' = DictSet(agents, config.name, NewAgent(config))
    /\ last' = Returned("Agent", <<config>>, None)
    /\ UNCHANGED <<convs, diskVars, pc, call, invoked, wlog, convVars>>

\* agent.add_message(Message(...))
AgentPost(name, post) ==
    /\ AgentEnter
    /\ name \in DOMAIN agents
    /\ agents' = [agents EXCEPT
                    ![name] = AgentAddMessage(@, Message(post.role, UserText, post.agent_id, nops))]
    /\ last' = Returned("add_message", <<name, post>>, None)
    /\ UNCHANGED <<convs, diskVars, pc, call, invoked, wlog, convVars>>

\* agent.save_config(agents_dir)
AgentSaveConfig(name) ==
    /\ AgentEnter
    /\ name \in DOMAIN agents
    /\ diskCfg' = SaveConfig(diskCfg, agents[name])
    /\ last' = Returned("save_config", <<name>>, None)
    /\ UNCHANGED <<agents, convs, diskHist, diskConv, pc, call, invoked, wlog, convVars>>

\* agent.save_history(agents_dir)
AgentSaveHistory(name) ==
    /\ AgentEnter
    /\ name \in DOMAIN agents
    /\ diskHist' = SaveHistory(diskHist, agents[name])
    /\ last' = Returned("save_history", <<name>>, None)
    /\ UNCHANGED <<agents, convs, diskCfg, diskConv, pc, call, invoked, wlog, convVars>>

\* Agent.load(agents_dir, agent_name): None without a config.json
AgentLoadCall(agent_name) ==
    /\ last' = Returned("load", <<agent_name>>,
                        IF agent_name \in DOMAIN diskCfg
                        THEN Some(AgentLoad(diskCfg, diskHist, agent_name))
                        ELSE Nothing)
    /\ UNCHANGED <<agents, convs, diskVars, pc, call, invoked, wlog, pre, nops, convVars>>

AgentNext ==
    \/ \E n \in AgentNames : AgentCreate(DefaultConfig(n)) \/ AgentCreate(OtherConfig(n))
    \/ \E n \in AgentNames, post \in Posts : AgentPost(n, post)
    \/ \E n \in AgentNames : AgentSaveConfig(n)
    \/ \E n \in AgentNames : AgentSaveHistory(n)
    \/ \E n \in Names : AgentLoadCall(n)

\* an empty agents directory and no Agent object
AgentInit == ConvStart /\ OrchStart

SpecAgent == AgentInit /\ [][AgentNext]_vars

(***************************************************************************)
(* SpecJsonl: one execute_prompt in recorded mode (agent.py).  The process *)
(* has run and left its record file and exit status; what the file holds   *)
(* and whether the derived JSON file can be written is the environment's   *)
(* choice.  Run parses the file and builds the response.                   *)
(***************************************************************************)
\* a line of the record file: blank (empty or white space), not JSON, JSON
\* that is not an object, or an object
BlankLine == [kind |-> "blank"]
BadLine == [kind |-> "bad"]
ScalarLine == [kind |-> "scalar"]

\* a record of the stream that is not the terminal one
AssistantRecord == [kind |-> "record", type |-> "assistant"]

\* a terminal record; its session id, cost and duration go with its text
ResultRecord(text, is_error) ==
    [kind |-> "record", type |-> "result", result |-> text, is_error |-> is_error,
     session_id |-> IF text = "r1" THEN "s1" ELSE "s2",
     total_cost_usd |-> IF text = "r1" THEN "usd1" ELSE "usd2",
     duration_ms |-> IF text = "r1" THEN "ms1" ELSE "ms2"]

Lines ==
    {BlankLine, BadLine, ScalarLine, AssistantRecord,
     ResultRecord("r1", FALSE), ResultRecord("r2", FALSE), ResultRecord("r2", TRUE)}

\* line.strip() is not empty
NonBlank(line) == line.kind # "blank"

\* json.loads(line) returns
Parses(line) == line.kind # "bad"

\* message.get("type") == "result"; only an object has get
IsRecord(message) == message.kind = "record"
IsResult(message) == IsRecord(message) /\ message.type = "result"

\* for message in reversed(messages): the position of the first result
\* record met from the end, 0 when there is none, and -1 (AttributeError)
\* when a message without get is met before
RECURSIVE ScanReversed(_, _)
ScanReversed(messages, k) ==
    IF k = 0 THEN 0
    ELSE IF ~IsRecord(messages[k]) THEN -1
    ELSE IF IsResult(messages[k]) THEN k
    ELSE ScanReversed(messages, k - 1)

\* the pair parse_jsonl_output returns
Parsed(messages, result_message) ==
    [messages |-> messages, result_message |-> result_message]

\* the lines the list comprehension hands to json.loads
KeptLines(file) == SelectSeq(file, NonBlank)

\* parse_jsonl_output: any exception gives ([], None)
parse_jsonl_output(file) ==
    LET kept == KeptLines(file)
    IN  IF \E k \in 1..Len(kept) : ~Parses(kept[k])
        THEN Parsed(<<>>, Nothing)
        ELSE LET found == ScanReversed(kept, Len(kept))
             IN  IF found < 0 THEN Parsed(<<>>, Nothing)
                 ELSE IF found = 0 THEN Parsed(kept, Nothing)
                 ELSE Parsed(kept, Some(kept[found]))

\* AgentPromptResponse built from the terminal record, with a mutation that
\* does not read the record's error flag
ResponseFromMutant(result_message) ==
    [output |-> result_message.result, success |-> TRUE,
     session_id |-> result_message.session_id,
     cost_usd |-> result_message.total_cost_usd,
     duration_ms |-> result_message.duration_ms]

ResponseFrom(result_message) ==
    [output |-> result_message.result, success |-> ~result_message.is_error,
     session_id |-> result_message.session_id,
     cost_usd |-> result_message.total_cost_usd,
     duration_ms |-> result_message.duration_ms]

\* AgentPromptResponse(output=..., success=False)
FailureResponse(output) ==
    [output |-> output, success |-> FALSE, session_id |-> None,
     cost_usd |-> None, duration_ms |-> None]

\* the recorded-mode branch of execute_prompt after subprocess.run
RecordedResponse(file, returncode, writable) ==
    IF returncode # 0 THEN FailureResponse("Error: stderr")
    ELSE LET parsed == parse_jsonl_output(file)
         IN  IF ~writable THEN FailureResponse("Error executing Claude Code: OSError")
             ELSE IF parsed.result_message.some
             THEN ResponseFrom(parsed.result_message.value)
             ELSE FailureResponse("Error: stderr")

\* the process has exited
JsonlInit ==
    /\ \E file \in SeqsUpTo(Lines, MaxLines), returncode \in {0, 1}, writable \in BOOLEAN :
         job = [phase |-> "ran", file |-> file, returncode |-> returncode,
                writable |-> writable]
    /\ conv = NewConversation("c", 0, 0)
    /\ net = {}
    /\ trail = <<>>
    /\ ncalls = 0
    /\ clock = 0
    /\ cstep = Step("new", <<>>, None, conv, 0)
    /\ peer = NoPeers
    /\ OrchStart

\* execute_prompt from the return of subprocess.run to its own return:
\* json is the derived JSON file, where one was written
Run ==
    /\ job.phase = "ran"
    /\ job' = [phase |-> "done", file |-> job.file, returncode |-> job.returncode,
               writable |-> job.writable,
               parsed |-> IF job.returncode = 0
                          THEN Some(parse_jsonl_output(job.file)) ELSE Nothing,
               json |-> IF job.returncode = 0 /\ job.writable
                        THEN Some(parse_jsonl_output(job.file).messages) ELSE Nothing,
               response |-> RecordedResponse(job.file, job.returncode, job.writable)]
    /\ UNCHANGED <<conv, net, trail, ncalls, clock, cstep, peer, orchVars>>

JsonlNext == Run

SpecJsonl == JsonlInit /\ [][JsonlNext]_vars

(***************************************************************************)
(* SpecExec: one execute_prompt from its call to its end, in plain or in   *)
(* recorded mode.  How the version probe and the launch of the tool end    *)
(* is the environment's choice.  subprocess.run is called without a        *)
(* timeout, so it does not raise TimeoutExpired.                           *)
(***************************************************************************)
\* how subprocess.run([CLAUDE_PATH, "--version"]) ends: exit status 0,
\* another exit status, no such file, or a file that cannot be executed
ProbeOutcomes == {"ok", "nonzero", "FileNotFoundError", "PermissionError"}

\* check_claude_installed: None, an error message, or the exception that
\* is not FileNotFoundError
check_claude_installed(outcome) ==
    IF outcome = "ok" THEN "none"
    ELSE IF outcome \in {"nonzero", "FileNotFoundError"} THEN "message"
    ELSE "raise"

\* how the launch of the tool ends: the process exits, or os.makedirs,
\* open or subprocess.run raises inside the try
LaunchOutcomes == {"exited", "OSError"}

\* the plain-mode response
PlainResponse(returncode) ==
    [output |-> IF returncode = 0 THEN "stdout" ELSE "stderr",
     success |-> returncode = 0,
     session_id |-> None, cost_usd |-> None, duration_ms |-> None]

ExecInit ==
    /\ \E recorded \in BOOLEAN : job = [phase |-> "called", recorded |-> recorded]
    /\ conv = NewConversation("c", 0, 0)
    /\ net = {}
    /\ trail = <<>>
    /\ ncalls = 0
    /\ clock = 0
    /\ cstep = Step("new", <<>>, None, conv, 0)
    /\ peer = NoPeers
    /\ OrchStart

\* execute_prompt up to the end of the version probe
Probe(outcome) ==
    /\ job.phase = "called"
    /\ LET checked == check_claude_installed(outcome)
       IN  job' = IF checked = "none"
                  THEN [phase |-> "checked", recorded |-> job.recorded]
                  ELSE IF checked = "message"
                  THEN [phase |-> "failed", cause |-> outcome,
                        response |-> FailureResponse("Error: Claude Code CLI is not installed")]
                  ELSE [phase |-> "raised", cause |-> outcome]
    /\ UNCHANGED <<conv, net, trail, ncalls, clock, cstep, peer, orchVars>>

\* execute_prompt from the version probe to the return of subprocess.run
Launch(outcome, file, returncode, writable) ==
    /\ job.phase = "checked"
    /\ job' = IF outcome = "OSError"
              THEN [phase |-> "failed", cause |-> outcome,
                    response |-> FailureResponse("Error executing Claude Code: OSError")]
              ELSE IF job.recorded
              THEN [phase |-> "ran", file |-> file, returncode |-> returncode,
                    writable |-> writable]
              ELSE [phase |-> "returned", returncode |-> returncode,
                    response |-> PlainResponse(returncode)]
    /\ UNCHANGED <<conv, net, trail, ncalls, clock, cstep, peer, orchVars>>

ExecNext ==
    \/ \E outcome \in ProbeOutcomes : Probe(outcome)
    \/ \E outcome \in LaunchOutcomes, file \in SeqsUpTo(Lines, MaxLines),
          returncode \in {0, 1}, writable \in BOOLEAN :
            Launch(outcome, file, returncode, writable)
    \/ Run

SpecExec == ExecInit /\ [][ExecNext]_vars

(***************************************************************************)
(* SpecPeers: two Orchestrators constructed on the same storage root,      *)
(* with no lock between them, working on one conversation that is on       *)
(* disk.  Each has its own _conversations; the file is shared.  A          *)
(* send_message on a conversation without participants is taken in two     *)
(* steps, its entry (lookup, user message) and its write, so that the      *)
(* other Orchestrator can act in between.                                  *)
(***************************************************************************)
Instances == {1, 2}

\* the conversation both work on
PeerConv == "c"

\* the text instance i sends with its n-th message
PeerText(i, n) == <<"msg", i, n>>

PeersInit ==
    /\ conv = NewConversation("c", 0, 0)
    /\ net = {}
    /\ trail = <<>>
    /\ ncalls = 0
    /\ clock = 0
    /\ cstep = Step("new", <<>>, None, conv, 0)
    /\ job = NoJob
    /\ peer = [mem |-> [i \in Instances |-> Empty],
               phase |-> [i \in Instances |-> "idle"],
               sent |-> [i \in Instances |-> 0],
               last |-> [op |-> "init", inst |-> 0]]
    /\ agents = Empty
    /\ convs = Empty
    /\ diskCfg = Empty
    /\ diskHist = Empty
    /\ diskConv = ConversationSave(Empty, NewConversation(PeerConv, 0, 0))
    /\ pc = "idle"
    /\ call = NoCall
    /\ last = Returned("init", <<>>, None)
    /\ invoked = <<>>
    /\ wlog = <<>>
    /\ pre = Snapshot(agents, convs, diskCfg, diskHist, diskConv)
    /\ nops = 0

\* what a step of SpecPeers leaves alone
PeerFrame ==
    UNCHANGED <<conv, net, trail, ncalls, clock, cstep, job,
                agents, convs, diskCfg, diskHist, pc, call, last, invoked, wlog, pre, nops>>

\* instance i: get_conversation(PeerConv)
PeerGet(i) ==
    /\ peer.phase[i] = "idle"
    /\ peer' = [peer EXCEPT
                  !.mem[i] = GetConversationIndex(@, diskConv, PeerConv),
                  !.last = [op |-> "get_conversation", inst |-> i]]
    /\ UNCHANGED diskConv
    /\ PeerFrame

\* instance i: send_message(PeerConv, text) up to the routing loop, which
\* has nothing to do
PeerSendBegin(i) ==
    /\ peer.phase[i] = "idle"
    /\ peer.sent[i] < MaxPeerSends
    /\ LET cs == GetConversationIndex(peer.mem[i], diskConv, PeerConv)
           conversation == add_message(cs[PeerConv],
                                       Message("user", PeerText(i, peer.sent[i] + 1), None, clock),
                                       clock)
       IN  peer' = [peer EXCEPT
                      !.mem[i] = PutConversation(cs, conversation),
                      !.phase[i] = "sending",
                      !.sent[i] = @ + 1,
                      !.last = [op |-> "send_message", inst |-> i]]
    /\ UNCHANGED diskConv
    /\ PeerFrame

\* instance i: conversation.save at the end of its send_message
PeerSendSave(i) ==
    /\ peer.phase[i] = "sending"
    /\ diskConv' = ConversationSave(diskConv, peer.mem[i][PeerConv])
    /\ peer' = [peer EXCEPT
                  !.phase[i] = "idle",
                  !.last = [op |-> "save", inst |-> i]]
    /\ PeerFrame

PeersNext ==
    \/ \E i \in Instances : PeerGet(i)
    \/ \E i \in Instances : PeerSendBegin(i)
    \/ \E i \in Instances : PeerSendSave(i)

SpecPeers == PeersInit /\ [][PeersNext]_vars

(***************************************************************************)
(* SpecCrowd: one send_message without a target list on a conversation     *)
(* that create_conversation made with eleven registered agents, so that    *)
(* more answers are appended within the call than a prompt renders.        *)
(***************************************************************************)
Crowd == <<"A", "B", "C", "D", "E", "F", "G", "H", "I", "J", "K">>

\* the state after create_conversation(Crowd) in a new Orchestrator whose
\* root holds the configs of the eleven
CrowdInit ==
    /\ ConvStart
    /\ diskCfg = [n \in Elems(Crowd) |-> AgentConfigToDict(DefaultConfig(n))]
    /\ diskHist = Empty
    /\ agents = LoadAgents(diskCfg, diskHist)
    /\ convs = PutConversation(Empty, AddKnown(NewConversation(1, clock, clock), agents, Crowd))
    /\ diskConv = ConversationSave(Empty, convs[1])
    /\ pc = "idle"
    /\ call = NoCall
    /\ last = Returned("create_conversation", <<Crowd>>, 1)
    /\ invoked = <<>>
    /\ wlog = << <<"conversation", 1>> >>
    /\ pre = Snapshot(agents, Empty, diskCfg, diskHist, Empty)
    /\ nops = 0

\* the one send_message
CrowdSend ==
    /\ nops = 0
    /\ SendMessage(1, NoTargets)

CrowdNext ==
    \/ CrowdSend
    \/ SendInvoke("ok")
    \/ SendInvoke("fail")
    \/ SendSaveConversation
    \/ SendSaveHistory
    \/ SendReturn

SpecCrowd == CrowdInit /\ [][CrowdNext]_vars

(***************************************************************************)
(* SpecAgain: an Orchestrator whose agent A has answered once, so that     *)
(* A has a history in memory and in its file; names are then registered    *)
(* again, messages are sent, and Orchestrators are constructed on the      *)
(* root.                                                                   *)
(***************************************************************************)
\* the state after create_conversation(["A"]) and a send_message to the
\* conversation that A answered, in an Orchestrator whose root held the
\* configs of A and B
AgainInit ==
    /\ ConvStart
    /\ diskCfg = [n \in {"A", "B"} |-> AgentConfigToDict(DefaultConfig(n))]
    /\ LET loaded == LoadAgents(diskCfg, Empty)
           created == AddKnown(NewConversation(1, clock, clock), loaded, <<"A">>)
           agent_message == Message("assistant", OkOutput, "A", clock)
           conversation ==
               add_message(add_message(created, Message("user", UserText, None, clock), clock),
                           agent_message, clock)
       IN  /\ agents = [loaded EXCEPT !["A"] = AgentAddMessage(@, agent_message)]
           /\ convs = PutConversation(Empty, conversation)
           /\ diskConv = ConversationSave(Empty, conversation)
           /\ diskHist = SaveHistory(Empty, agents["A"])
           /\ last = Returned("send_message", <<1, NoTargets>>, <<AgentResponse("A", "ok")>>)
    /\ pc = "idle"
    /\ call = NoCall
    /\ invoked = <<>>
    /\ wlog = <<>>
    /\ pre = Snapshot(agents, convs, diskCfg, diskHist, diskConv)
    /\ nops = 0

AgainNext ==
    \/ \E c \in Configs : RegisterAgent(c)
    \/ \E t \in TargetArgs : SendMessage(1, t)
    \/ SendSkip
    \/ \E o \in Outcomes : SendInvoke(o)
    \/ SendSaveConversation
    \/ SendSaveHistory
    \/ SendReturn
    \/ Restart

SpecAgain == AgainInit /\ [][AgainNext]_vars

(***************************************************************************)
(* SpecReg: the registry entry points alone, with every config a caller    *)
(* may pass, so that a name is registered again with another config.       *)
(***************************************************************************)
RegNext ==
    \/ \E c \in Configs : RegisterAgent(c)
    \/ \E n \in Names : UnregisterAgent(n)
    \/ Restart

SpecReg == Init /\ [][RegNext]_vars

(***************************************************************************)
(* Reading the log.                                                        *)
(***************************************************************************)
IsSystem(m) == m.role = "system"

\* what a system message records: a join or a leave of its agent
EventOf(m) ==
    IF m.content[1] = "joined" THEN <<"join", m.agent_id>> ELSE <<"leave", m.agent_id>>

RECURSIVE MapEvents(_)
MapEvents(ms) == IF ms = <<>> THEN <<>> ELSE <<EventOf(Head(ms))>> \o MapEvents(Tail(ms))

\* the join and leave events the log records, in log order
SystemEvents(ms) == MapEvents(SelectSeq(ms, IsSystem))

\* the membership changes among the calls made
IsMembershipChange(e) == e[1] \in {"join", "leave"}

(***************************************************************************)
(* C1: after any sequence of add_participant / remove_participant calls    *)
(* on a conversation that started empty, the participant list holds        *)
(* exactly the names with a net add, each once, and the log holds exactly  *)
(* one system join or leave message per call that changed membership, in   *)
(* call order, and nothing for a redundant call.                           *)
(***************************************************************************)
C1_NetMembershipAndAudit ==
    /\ Elems(conv.participants) = net
    /\ NoDup(conv.participants)
    /\ SystemEvents(conv.messages) = SelectSeq(trail, IsMembershipChange)
    /\ Len(conv.messages) = Len(trail)

\* redundant calls of both kinds were made and membership changed both ways
C1_Witness ==
    /\ ncalls > Len(trail) + 1
    /\ Len(trail) >= 3
    /\ trail = SelectSeq(trail, IsMembershipChange)
    /\ \E k \in 1..Len(trail) : trail[k][1] = "leave"
    /\ net # {}

(***************************************************************************)
(* Reading a send_message call.  call keeps the locals of the last         *)
(* send_message that found its conversation until another entry point is   *)
(* called; pre holds the registries and files as that call found them.     *)
(***************************************************************************)
\* a send_message that found its conversation is running or was the last call
InSend == call.cid # 0

\* that call has returned its responses
SendReturned == InSend /\ last.op = "send_message"

\* the conversation a call found under id: the one in memory, else the one
\* read from its file
ConvFound(id) ==
    IF id \in DOMAIN pre.convs THEN pre.convs[id]
    ELSE ConversationFromDict(pre.diskConv[id])

\* the conversation of the call, now
SendConv == convs[call.cid]

\* a is an initial part of b
IsPrefix(a, b) == Len(a) <= Len(b) /\ \A k \in 1..Len(a) : a[k] = b[k]

\* the agent names of a list of invocations or of responses
NamesOf(rs) == [k \in 1..Len(rs) |-> rs[k].agent_name]

\* the message a successful invocation of an agent contributes
AssistantMessage(agent_name) == Message("assistant", OkOutput, agent_name, clock)

RECURSIVE OkMessages(_)
\* the messages of the successful invocations among inv, in order
OkMessages(inv) ==
    IF inv = <<>> THEN <<>>
    ELSE (IF Head(inv).outcome = "ok"
          THEN <<AssistantMessage(Head(inv).agent_name)>> ELSE <<>>)
         \o OkMessages(Tail(inv))

RECURSIVE OwnOkMessages(_, _)
\* those of one agent
OwnOkMessages(inv, n) ==
    IF inv = <<>> THEN <<>>
    ELSE (IF Head(inv).outcome = "ok" /\ Head(inv).agent_name = n
          THEN <<AssistantMessage(n)>> ELSE <<>>)
         \o OwnOkMessages(Tail(inv), n)

\* position k of the call's target list names a current participant whose
\* agent is registered
ResolvedAt(k) ==
    /\ In(call.agents_to_call[k], SendConv.participants)
    /\ call.agents_to_call[k] \in DOMAIN agents

\* the resolved targets of the call: the names at the resolved positions
ResolvedTargets ==
    LET idx == {k \in 1..Len(call.agents_to_call) : ResolvedAt(k)}
        RECURSIVE Walk(_)
        Walk(k) == IF k > Len(call.agents_to_call) THEN <<>>
                   ELSE (IF k \in idx THEN <<call.agents_to_call[k]>> ELSE <<>>)
                        \o Walk(k + 1)
    IN  Walk(1)

(***************************************************************************)
(* C2: a send_message without a target list, on a conversation whose       *)
(* participants are all registered, invokes the participants in list       *)
(* order; the responses it returns are in that order, and the log is the   *)
(* log it found, then the user message, then the assistant messages of     *)
(* the successful invocations in that same order.                          *)
(***************************************************************************)
C2_ParticipantOrder ==
    (/\ InSend
     /\ ~last.args[2].given
     /\ Elems(SendConv.participants) \subseteq DOMAIN agents)
    => /\ IsPrefix(NamesOf(invoked), SendConv.participants)
       /\ SendConv.messages =
            ConvFound(call.cid).messages \o <<Message("user", UserText, None, clock)>>
                \o OkMessages(invoked)
       /\ SendReturned =>
            /\ NamesOf(invoked) = SendConv.participants
            /\ NamesOf(last.ret) = SendConv.participants

\* participants [C, A, B] or the like: three of them, not in name order,
\* the first invocation failed and the last succeeded
C2_Witness ==
    /\ SendReturned
    /\ ~last.args[2].given
    /\ Len(SendConv.participants) = 3
    /\ SendConv.participants[1] = "C"
    /\ SendConv.participants[2] = "A"
    /\ Elems(SendConv.participants) \subseteq DOMAIN agents
    /\ ~last.ret[1].success
    /\ last.ret[3].success

C4_AppendsOnSuccessOnly ==
    InSend =>
       /\ SendConv.messages =
            ConvFound(call.cid).messages \o <<Message("user", UserText, None, clock)>>
                \o OkMessages(invoked)
       /\ DOMAIN agents = DOMAIN pre.agents
       /\ \A n \in DOMAIN agents :
            agents[n].conversation_history =
               pre.agents[n].conversation_history \o OwnOkMessages(invoked, n)

\* a call with a successful and a failed invocation has returned
C4_Witness ==
    /\ SendReturned
    /\ \E j, k \in 1..Len(invoked) :
         invoked[j].outcome = "ok" /\ invoked[k].outcome = "fail"

(***************************************************************************)
(* C5: send_message invokes a name only if the name is in the target list  *)
(* given (or none was given), is a participant and is registered.          *)
(* The code takes an empty list for no list and invokes every              *)
(* participant, none of which was requested.                               *)
(***************************************************************************)
C5_InvokedOnlyIfRequested ==
    InSend =>
       \A k \in 1..Len(invoked) :
          /\ ~last.args[2].given \/ In(invoked[k].agent_name, last.args[2].list)
          /\ In(invoked[k].agent_name, SendConv.participants)
          /\ invoked[k].agent_name \in DOMAIN agents

C7_UnknownConversation ==
    (/\ last.op = "send_message"
     /\ last.args[1] \notin DOMAIN pre.convs \cup DOMAIN pre.diskConv)
    => /\ last.ret = <<>>
       /\ convs = pre.convs
       /\ agents = pre.agents
       /\ diskCfg = pre.diskCfg
       /\ diskHist = pre.diskHist
       /\ diskConv = pre.diskConv
       /\ invoked = <<>>
       /\ wlog = <<>>

\* the id is unknown while another conversation, with a registered
\* participant, is in memory
C7_Witness ==
    /\ last.op = "send_message"
    /\ last.args[1] \notin DOMAIN pre.convs \cup DOMAIN pre.diskConv
    /\ \E id \in DOMAIN convs :
         \E k \in 1..Len(convs[id].participants) :
            convs[id].participants[k] \in DOMAIN agents

(***************************************************************************)
(* C8: within a send_message no file is written while the routing loop     *)
(* runs; then the conversation file is written once, and after it the      *)
(* history file of each targeted agent exactly once.                       *)
(* The history loop walks the target list as given: a name that occurs     *)
(* twice has its history file written twice.                               *)
(***************************************************************************)
C8_WritesOnceAfterLoop ==
    InSend =>
       /\ (pc = "loop" \/ last.op = "send_message/raised") =>
            /\ wlog = <<>>
            /\ diskConv = pre.diskConv
            /\ diskHist = pre.diskHist
            /\ diskCfg = pre.diskCfg
       /\ SendReturned =>
            /\ wlog # <<>>
            /\ Head(wlog) = <<"conversation", call.cid>>
            /\ NoDup(Tail(wlog))
            /\ Elems(Tail(wlog)) =
                 {<<"history", n>> : n \in Elems(call.agents_to_call) \cap DOMAIN agents}

(***************************************************************************)
(* C9: invite_agent returns true exactly when the conversation id and the  *)
(* agent name both resolve; when it returns false it has written no file   *)
(* and every conversation has the participants and messages it had.        *)
(***************************************************************************)
C9_InviteUnknown ==
    last.op = "invite_agent" =>
       LET resolves ==
             /\ last.args[1] \in DOMAIN pre.convs \cup DOMAIN pre.diskConv
             /\ last.args[2] \in DOMAIN pre.agents
       IN  /\ last.ret = resolves
           /\ ~resolves =>
                /\ wlog = <<>>
                /\ diskConv = pre.diskConv
                /\ diskHist = pre.diskHist
                /\ diskCfg = pre.diskCfg
                /\ DOMAIN convs \subseteq DOMAIN pre.convs \cup DOMAIN pre.diskConv
                /\ \A id \in DOMAIN convs :
                     /\ convs[id].participants = ConvFound(id).participants
                     /\ convs[id].messages = ConvFound(id).messages

\* the conversation exists, with a participant, and the agent does not
C9_Witness ==
    /\ last.op = "invite_agent"
    /\ last.ret = FALSE
    /\ last.args[1] \in DOMAIN convs
    /\ convs[last.args[1]].participants # <<>>
    /\ last.args[2] \notin DOMAIN agents

\* the names of lst, each at its first occurrence
RECURSIVE FirstOccurrences(_)
FirstOccurrences(lst) ==
    IF lst = <<>> THEN <<>>
    ELSE LET init == FirstOccurrences(SubSeq(lst, 1, Len(lst) - 1))
             x == lst[Len(lst)]
         IN  IF x \in Elems(init) THEN init ELSE Append(init, x)

(***************************************************************************)
(* C10: create_conversation returns a conversation that is indexed under   *)
(* its id and persisted, whose participants are the registered names of    *)
(* the argument, each once, in the order of their first occurrence, and    *)
(* whose log holds one plain join message per participant and nothing for  *)
(* the names that do not resolve.                                          *)
(***************************************************************************)
C10_CreateKnownOnly ==
    last.op = "create_conversation" =>
       LET id == last.ret
           IsKnown(n) == n \in DOMAIN pre.agents
           known == FirstOccurrences(SelectSeq(last.args[1], IsKnown))
       IN  /\ id \in DOMAIN convs
           /\ id \in DOMAIN diskConv
           /\ diskConv[id] = ConversationToDict(convs[id])
           /\ convs[id].id = id
           /\ convs[id].participants = known
           /\ convs[id].messages =
                [k \in 1..Len(known) |-> Message("system", <<"joined">>, known[k], clock)]

\* the argument held an unknown name and a known name twice, and two names
\* became participants
C10_Witness ==
    /\ last.op = "create_conversation"
    /\ Len(convs[last.ret].participants) = 2
    /\ Len(last.args[1]) = 3
    /\ \E k \in 1..3 : last.args[1][k] \notin DOMAIN agents
    /\ last.args[1][1] \in DOMAIN agents

(***************************************************************************)
(* C11: unregister_agent returns true exactly when the name was in the     *)
(* registry, takes that entry and no other out of it, and leaves every     *)
(* file (the agent's config and history among them) and every              *)
(* conversation as they were.                                              *)
(***************************************************************************)
C11_UnregisterMemoryOnly ==
    last.op = "unregister_agent" =>
       LET name == last.args[1]
       IN  /\ last.ret = (name \in DOMAIN pre.agents)
           /\ DOMAIN agents = DOMAIN pre.agents \ {name}
           /\ \A k \in DOMAIN agents : agents[k] = pre.agents[k]
           /\ diskCfg = pre.diskCfg
           /\ diskHist = pre.diskHist
           /\ diskConv = pre.diskConv
           /\ convs = pre.convs
           /\ wlog = <<>>

\* an agent with a history file and a seat in a conversation was
\* unregistered while another agent stayed registered
C11_Witness ==
    /\ last.op = "unregister_agent"
    /\ last.ret = TRUE
    /\ last.args[1] \in DOMAIN diskCfg
    /\ last.args[1] \in DOMAIN diskHist
    /\ diskHist[last.args[1]] # <<>>
    /\ agents # Empty
    /\ \E id \in DOMAIN convs : In(last.args[1], convs[id].participants)

(***************************************************************************)
(* C12: when register_agent returns, the config file of the name holds     *)
(* the config given, and the registry entry of the name is the agent       *)
(* built from that config, whatever entry the name had before; so          *)
(* get_agent(name), the lookup of that entry, returns it.  No other entry  *)
(* and no other file has changed.                                          *)
(***************************************************************************)
C12_RegisterPersistsAndReplaces ==
    last.op = "register_agent" =>
       LET config == last.args[1]
           name == config.name
       IN  /\ name \in DOMAIN diskCfg
           /\ diskCfg[name] = AgentConfigToDict(config)
           /\ wlog = << <<"config", name>> >>
           /\ HasAgent(agents, name)
           /\ agents[name] = last.ret
           /\ agents[name].config = config
           /\ agents[name].conversation_history = <<>>
           /\ DOMAIN agents = DOMAIN pre.agents \cup {name}
           /\ \A k \in DOMAIN agents \ {name} : agents[k] = pre.agents[k]
           /\ \A k \in DOMAIN diskCfg \ {name} :
                k \in DOMAIN pre.diskCfg /\ diskCfg[k] = pre.diskCfg[k]
           /\ diskHist = pre.diskHist
           /\ diskConv = pre.diskConv

\* a registered name was registered again with another config, over the
\* config file it had, next to another registered agent
C12_Witness ==
    /\ last.op = "register_agent"
    /\ last.args[1].name \in DOMAIN pre.agents
    /\ pre.agents[last.args[1].name].config # last.args[1]
    /\ pre.diskCfg[last.args[1].name] # diskCfg[last.args[1].name]
    /\ \E k \in DOMAIN agents : k # last.args[1].name

(***************************************************************************)
(* C13: execute_command changes no conversation, no agent history, no      *)
(* registry and no file, whether its invocation succeeds, fails or         *)
(* raises; for a name that is not registered it makes no invocation and    *)
(* returns a response with success false.                                  *)
(***************************************************************************)
C13_ExecuteCommandFrame ==
    last.op \in {"execute_command", "execute_command/raised"} =>
       LET name == last.args[1]
       IN  /\ convs = pre.convs
           /\ agents = pre.agents
           /\ diskCfg = pre.diskCfg
           /\ diskHist = pre.diskHist
           /\ diskConv = pre.diskConv
           /\ wlog = <<>>
           /\ name \notin DOMAIN pre.agents =>
                /\ last.op = "execute_command"
                /\ last.ret.agent_name = name
                /\ last.ret.success = FALSE
                /\ invoked = <<>>
           /\ (name \in DOMAIN pre.agents /\ last.op = "execute_command") =>
                /\ Len(invoked) = 1
                /\ invoked[1].agent_name = name
                /\ last.ret.agent_name = name
                /\ last.ret.success = (invoked[1].outcome = "ok")

\* a command failed on an agent that has a history and a seat in a
\* conversation with messages
C13_Witness ==
    /\ last.op = "execute_command"
    /\ invoked # <<>>
    /\ last.ret.success = FALSE
    /\ agents[last.args[1]].conversation_history # <<>>
    /\ \E id \in DOMAIN convs : In(last.args[1], convs[id].participants)

(***************************************************************************)
(* Reading a lookup that misses.                                           *)
(***************************************************************************)
\* the name was not registered when the entry point was called
UnknownAgent(agent_name) == agent_name \notin DOMAIN pre.agents

\* the id named no conversation, in memory or on disk, when the entry point
\* was called
UnknownConversation(conversation_id) ==
    conversation_id \notin DOMAIN pre.convs \cup DOMAIN pre.diskConv

\* the names under which a fault of an entry point is recorded
RaisedOps ==
    {"unregister_agent/raised", "send_message/raised", "execute_command/raised"}

\* an entry point raised for another reason than a lookup: the invocation
\* it made raised
InvocationRaised ==
    /\ invoked # <<>>
    /\ invoked[Len(invoked)].outcome = "fault"

(***************************************************************************)
(* C14, as stated: at each of the seven entry points an unknown agent      *)
(* name or conversation id comes back as false, an empty list, None or     *)
(* the not-found response.                                                 *)
(* remove_agent_from_conversation does not look the agent up: for a known  *)
(* conversation it returns true whatever the name.                         *)
(***************************************************************************)
C14_UnknownSurfacedAsNotFound ==
    /\ last.op \in RaisedOps => InvocationRaised
    /\ (last.op = "unregister_agent" /\ UnknownAgent(last.args[1]))
           => last.ret = FALSE
    /\ (last.op = "get_agent" /\ UnknownAgent(last.args[1]))
           => ~last.ret.some
    /\ (last.op = "get_conversation" /\ UnknownConversation(last.args[1]))
           => ~last.ret.some
    /\ (last.op = "invite_agent"
          /\ (UnknownConversation(last.args[1]) \/ UnknownAgent(last.args[2])))
           => last.ret = FALSE
    /\ (last.op = "remove_agent_from_conversation"
          /\ (UnknownConversation(last.args[1]) \/ UnknownAgent(last.args[2])))
           => last.ret = FALSE
    /\ (last.op = "send_message" /\ UnknownConversation(last.args[1]))
           => last.ret = <<>>
    /\ (last.op = "execute_command" /\ UnknownAgent(last.args[1]))
           => last.ret = NotFoundResponse(last.args[1])

(***************************************************************************)
(* C14, amended: no entry point raises because a name or an id is          *)
(* unknown.  An unknown conversation id comes back as false (invite_agent, *)
(* remove_agent_from_conversation), an empty list (send_message) or None   *)
(* (get_conversation); an unknown agent name as false (unregister_agent,   *)
(* invite_agent), None (get_agent) or the not-found response               *)
(* (execute_command).  remove_agent_from_conversation returns true for     *)
(* every known conversation, and send_message gives an unknown name of     *)
(* its target list no response entry.                                      *)
(***************************************************************************)
C14_LookupMissNoFault ==
    /\ last.op \in RaisedOps => InvocationRaised
    /\ (last.op = "unregister_agent" /\ UnknownAgent(last.args[1]))
           => last.ret = FALSE
    /\ (last.op = "get_agent" /\ UnknownAgent(last.args[1]))
           => ~last.ret.some
    /\ (last.op = "get_conversation" /\ UnknownConversation(last.args[1]))
           => ~last.ret.some /\ convs = pre.convs
    /\ (last.op = "invite_agent"
          /\ (UnknownConversation(last.args[1]) \/ UnknownAgent(last.args[2])))
           => last.ret = FALSE
    /\ last.op = "remove_agent_from_conversation"
           => last.ret = ~UnknownConversation(last.args[1])
    /\ last.op = "send_message" =>
          /\ UnknownConversation(last.args[1]) => last.ret = <<>>
          /\ \A k \in 1..Len(last.ret) : ~UnknownAgent(last.ret[k].agent_name)
    /\ (last.op = "execute_command" /\ UnknownAgent(last.args[1]))
           => last.ret = NotFoundResponse(last.args[1])

\* a participant that is no longer registered was removed from its
\* conversation, and the call returned true
C14_Witness ==
    /\ last.op = "remove_agent_from_conversation"
    /\ last.ret = TRUE
    /\ UnknownAgent(last.args[2])
    /\ In(last.args[2], ConvFound(last.args[1]).participants)
    /\ ~In(last.args[2], convs[last.args[1]].participants)

(***************************************************************************)
(* C15: a Conversation saved and loaded again equals the one saved: id,    *)
(* participants, messages with their timestamps, created_at, updated_at    *)
(* and metadata.  It is checked at every Conversation SpecConv reaches,    *)
(* and the conversations an Orchestrator holds go through the same pair.   *)
(***************************************************************************)
C15_ConversationRoundTrip ==
    /\ cstep.op = "save_load" => cstep.ret = conv
    /\ \A k \in DOMAIN convs :
         ConversationLoad(ConversationSave(diskConv, convs[k]), k) = convs[k]

\* a conversation with members, a user post, a system message and an
\* agent's answer, changed after it was created, was saved and loaded
C15_Witness ==
    /\ cstep.op = "save_load"
    /\ conv.participants # <<>>
    /\ conv.updated_at > conv.created_at
    /\ \E k \in 1..Len(conv.messages) : conv.messages[k].agent_id = None
    /\ \E k \in 1..Len(conv.messages) : conv.messages[k].role = "system"
    /\ \E k \in 1..Len(conv.messages) : conv.messages[k].timestamp < conv.updated_at

(***************************************************************************)
(* C16: Agent.load returns None when the name has no config file; with a   *)
(* config file and no history file it returns an agent with that config    *)
(* and an empty history; and when the two files are what save_config and   *)
(* save_history write for an agent, it returns an agent with that agent's  *)
(* config and its history in the same order.                               *)
(***************************************************************************)
\* the files of name are those save_config and save_history write for a
ConfigSavedFrom(a, name) ==
    name \in DOMAIN diskCfg /\ diskCfg[name] = SaveConfig(Empty, a)[name]

HistorySavedFrom(a, name) ==
    name \in DOMAIN diskHist /\ diskHist[name] = SaveHistory(Empty, a)[name]

C16_AgentRoundTrip ==
    last.op = "load" =>
        LET name == last.args[1]
        IN  /\ name \notin DOMAIN diskCfg => ~last.ret.some
            /\ name \in DOMAIN diskCfg => last.ret.some
            /\ \A a \in {agents[n] : n \in DOMAIN agents \cap {name}} :
                 /\ ConfigSavedFrom(a, name) => last.ret.value.config = a.config
                 /\ ConfigSavedFrom(a, name) /\ HistorySavedFrom(a, name) =>
                        last.ret.value.conversation_history = a.conversation_history
            /\ name \in DOMAIN diskCfg /\ name \notin DOMAIN diskHist =>
                 last.ret.value.conversation_history = <<>>

\* an agent with two messages in its history was saved and loaded
C16_Witness ==
    /\ last.op = "load"
    /\ last.args[1] \in DOMAIN agents
    /\ Len(agents[last.args[1]].conversation_history) = 2
    /\ ConfigSavedFrom(agents[last.args[1]], last.args[1])
    /\ HistorySavedFrom(agents[last.args[1]], last.args[1])

(***************************************************************************)
(* C17: with a clock that never goes back, updated_at never decreases and  *)
(* is never earlier than created_at; after a call that changed the         *)
(* participants or appended a message it is the last clock reading of      *)
(* that call, and a call that changed neither leaves it as it was.         *)
(***************************************************************************)
\* the last call changed the participants or the log
StepChanged ==
    conv.participants # cstep.was.participants \/ conv.messages # cstep.was.messages

C17_UpdatedAtRefreshed ==
    /\ conv.created_at <= conv.updated_at
    /\ conv.created_at = cstep.was.created_at
    /\ cstep.was.updated_at <= conv.updated_at
    /\ conv.updated_at <= clock
    /\ StepChanged => conv.updated_at = cstep.now
    /\ ~StepChanged => conv.updated_at = cstep.was.updated_at

\* a removal that took effect at a later time than the changes before it
C17_Witness ==
    /\ cstep.op = "remove_participant"
    /\ StepChanged
    /\ Len(cstep.was.messages) >= 2
    /\ cstep.was.updated_at < conv.updated_at

(***************************************************************************)
(* C18: get_messages_for_agent(agent_name, limit) with limit >= 0 returns  *)
(* the last min(limit, length of the log) messages of the log, in log      *)
(* order, whatever agent_name is.                                          *)
(***************************************************************************)
\* the last n elements of lst, n <= Len(lst)
LastN(lst, n) == [k \in 1..n |-> lst[Len(lst) - n + k]]

\* the window the claim describes
LastWindow(lst, limit) == LastN(lst, IF limit < Len(lst) THEN limit ELSE Len(lst))

C18_LastLimitMessages ==
    cstep.op = "get_messages_for_agent" =>
        /\ cstep.ret = LastWindow(conv.messages, cstep.args[2])
        /\ \A n \in Names :
             get_messages_for_agent(conv, n, cstep.args[2]) = cstep.ret

(***************************************************************************)
(* Reading a recorded-mode execution.                                      *)
(***************************************************************************)
\* the process exited with status 0 and execute_prompt has returned
DoneExitZero == job.phase = "done" /\ job.returncode = 0

\* the last record of type "result" in the file; there is one
LastResult(file) ==
    LET rs == SelectSeq(file, IsResult) IN rs[Len(rs)]

HasResult(file) == \E k \in 1..Len(file) : IsResult(file[k])

(***************************************************************************)
(* C19: in recorded mode with exit status 0 the response is built from     *)
(* the last record of type "result" of the file, wherever it sits and      *)
(* whatever precedes it; if the file has no such record the response is    *)
(* a failure.                                                              *)
(***************************************************************************)
C19_LastResultRecordWins ==
    DoneExitZero =>
        IF HasResult(job.file)
        THEN job.response = ResponseFrom(LastResult(job.file))
        ELSE ~job.response.success

(***************************************************************************)
(* C20: a record file with malformed or empty lines and a valid terminal   *)
(* record is parsed by skipping the bad lines: all valid records are       *)
(* returned, the terminal record is found and the response is built from   *)
(* it.                                                                     *)
(***************************************************************************)
HasBadOrBlank(file) == \E k \in 1..Len(file) : file[k].kind \in {"bad", "blank"}

\* a line that holds JSON
IsValidLine(line) == NonBlank(line) /\ Parses(line)

C20_BadLinesSkipped ==
    DoneExitZero /\ HasBadOrBlank(job.file) /\ HasResult(job.file) =>
        /\ job.parsed.value.messages = SelectSeq(job.file, IsValidLine)
        /\ job.parsed.value.result_message.some
        /\ job.parsed.value.result_message.value = LastResult(job.file)
        /\ job.response = ResponseFrom(LastResult(job.file))

(***************************************************************************)
(* C21: in recorded mode, when the process exited 0 and a terminal result  *)
(* record was read from the record file, the response carries that         *)
(* record's text, flag, session id, cost and duration whether or not the   *)
(* derived JSON file could be written.                                     *)
(***************************************************************************)
\* the parser found a terminal record in the file
ResultParsed ==
    job.phase = "done" /\ job.parsed.some /\ job.parsed.value.result_message.some

C21_WriteFailureHarmless ==
    DoneExitZero /\ ResultParsed /\ ~job.writable =>
        job.response = ResponseFrom(job.parsed.value.result_message.value)

CleanResult ==
    /\ job.returncode = 0
    /\ ResultParsed
    /\ ~job.parsed.value.result_message.value.is_error

C23_ExecutePromptNeverRaises ==
    /\ job.phase # "raised"
    /\ job.phase = "failed" => ~job.response.success

(***************************************************************************)
(* C24: an agent or a conversation that is in durable storage and not in   *)
(* memory is brought into the in-memory registry by its first access by    *)
(* name or id, and an access to one that is in memory returns the object   *)
(* in memory.                                                              *)
(***************************************************************************)
\* get_agent, for a name in memory or with a config file
AgentAccessHydrates ==
    last.op = "get_agent" =>
        LET name == last.args[1]
        IN  /\ name \in DOMAIN pre.agents =>
                last.ret.some /\ last.ret.value = pre.agents[name]
            /\ name \in DOMAIN pre.diskCfg \ DOMAIN pre.agents =>
                /\ last.ret.some
                /\ name \in DOMAIN agents

\* get_conversation, for an id in memory or with a file
ConversationAccessHydrates ==
    last.op = "get_conversation" =>
        LET id == last.args[1]
        IN  /\ id \in DOMAIN pre.convs =>
                last.ret.some /\ last.ret.value = pre.convs[id] /\ convs = pre.convs
            /\ id \in DOMAIN pre.diskConv \ DOMAIN pre.convs =>
                /\ last.ret.some
                /\ last.ret.value = ConversationLoad(pre.diskConv, id)
                /\ id \in DOMAIN convs
                /\ convs[id] = last.ret.value

C24_LazyHydration == AgentAccessHydrates /\ ConversationAccessHydrates

(***************************************************************************)
(* C25: with two Orchestrators on one storage root, the conversation file  *)
(* after a save is the in-memory copy of the instance that saved last;     *)
(* and a state is reached in which both have saved and a message the       *)
(* other instance appended and saved is not in the file.                   *)
(***************************************************************************)
\* the conversation as the file has it
Durable == ConversationLoad(diskConv, PeerConv)

C25_LastWriterWins ==
    peer.last.op = "save" => Durable = peer.mem[peer.last.inst][PeerConv]

\* message m was appended by instance i
AppendedBy(m, i) == m.content[2] = i

\* both have saved, and a message of the instance that did not save last
\* is missing from the file
C25_Witness ==
    /\ peer.last.op = "save"
    /\ \A i \in Instances : peer.sent[i] >= 1 /\ peer.phase[i] = "idle"
    /\ \E i \in Instances \ {peer.last.inst} :
         \E k \in 1..Len(peer.mem[i][PeerConv].messages) :
            /\ AppendedBy(peer.mem[i][PeerConv].messages[k], i)
            /\ ~In(peer.mem[i][PeerConv].messages[k], Durable.messages)

(***************************************************************************)
(* C26: a send_message invokes no agent more than once, also when the      *)
(* target list names it more than once; on return every resolved target    *)
(* has been invoked.                                                       *)
(***************************************************************************)
C26_OneInvocationPerTarget ==
    InSend =>
       /\ NoDup(NamesOf(invoked))
       /\ SendReturned => Elems(NamesOf(invoked)) = Elems(ResolvedTargets)

(***************************************************************************)
(* C27: a send_message given an explicit target list invokes only names    *)
(* of that list, and nobody when the list is empty; the participant list   *)
(* is walked only when no list is given.                                   *)
(***************************************************************************)
C27_ExplicitTargetsOnly ==
    InSend /\ last.args[2].given =>
       /\ Elems(NamesOf(invoked)) \subseteq Elems(last.args[2].list)
       /\ call.agents_to_call = last.args[2].list

(***************************************************************************)
(* Reading the context of an invocation.                                   *)
(***************************************************************************)
\* the invocations of the call before its k-th
Earlier(k) == SubSeq(invoked, 1, k - 1)

\* the shared log as the k-th invocation of the call found it
LogAt(k) ==
    ConvFound(call.cid).messages
        \o <<Message("user", UserText, None, clock)>>
        \o OkMessages(Earlier(k))

\* the number of answers appended by the call before its k-th invocation
AnswersBefore(k) == Len(OkMessages(Earlier(k)))

\* the context of the k-th invocation holds the call's user message at the
\* place it has in the log
HoldsUserMessage(k) ==
    LET context == invoked[k].context
    IN  /\ Len(context) > AnswersBefore(k)
        /\ context[Len(context) - AnswersBefore(k)] = Message("user", UserText, None, clock)

(***************************************************************************)
(* C28, as stated: the context of each target is the last 10 messages of   *)
(* the log as it stands when the target is invoked, and it always holds    *)
(* the user message of the current call.                                   *)
(***************************************************************************)
C28_ContextAlwaysHoldsUserMessage ==
    InSend =>
       \A k \in 1..Len(invoked) :
          /\ invoked[k].context = LastWindow(LogAt(k), PromptWindow)
          /\ HoldsUserMessage(k)

(***************************************************************************)
(* C28, amended: the context of each target is the last 10 messages of     *)
(* the log as it stands when the target is invoked: the answers of the     *)
(* targets that succeeded earlier in the call, none of a later target,     *)
(* and the user message of the call exactly when fewer than 10 answers     *)
(* were appended before.                                                   *)
(***************************************************************************)
C28_ContextIsLastTen ==
    InSend =>
       \A k \in 1..Len(invoked) :
          /\ invoked[k].context = LastWindow(LogAt(k), PromptWindow)
          /\ HoldsUserMessage(k) <=> AnswersBefore(k) < PromptWindow
          /\ LET answers == LastWindow(OkMessages(Earlier(k)), PromptWindow)
             IN  LastWindow(invoked[k].context, Len(answers)) = answers

\* the eleventh target was invoked after ten answers; an earlier one was
\* invoked after a failure
C28_Witness ==
    /\ SendReturned
    /\ \E k \in 1..Len(invoked) : AnswersBefore(k) = PromptWindow
    /\ \E k \in 1..Len(invoked) : invoked[k].outcome = "fail"

(***************************************************************************)
(* C29: the log of a conversation is append-only: in every step of a       *)
(* Conversation operation and of an Orchestrator operation, the log        *)
(* before the step is an initial part of the log after it, for the         *)
(* stand-alone Conversation and for every conversation the Orchestrator    *)
(* holds before and after the step.                                        *)
(***************************************************************************)
C29_LogAppendOnly ==
    [][ /\ IsPrefix(conv.messages, conv'.messages)
        /\ \A id \in DOMAIN convs \cap DOMAIN convs' :
              IsPrefix(convs[id].messages, convs'[id].messages) ]_vars

\* a send_message has returned that found a log of a join and more, and
\* left it longer by the user message and an answer
C29_Witness ==
    /\ SendReturned
    /\ Len(ConvFound(call.cid).messages) >= 2
    /\ Len(SendConv.messages) >= Len(ConvFound(call.cid).messages) + 2
    /\ IsPrefix(ConvFound(call.cid).messages, SendConv.messages)

(***************************************************************************)
(* C30: in every state that create_conversation, invite_agent,             *)
(* remove_agent_from_conversation and send_message reach, no conversation  *)
(* names a participant twice, in memory and in its file.                   *)
(***************************************************************************)
C30_ParticipantsDistinct ==
    /\ \A id \in DOMAIN convs : NoDup(convs[id].participants)
    /\ \A id \in DOMAIN diskConv : NoDup(diskConv[id].participants)

\* invite_agent has returned True for an agent that was a participant
\* already, and the list is as it was
C30_Witness ==
    /\ last.op = "invite_agent"
    /\ last.ret = TRUE
    /\ last.args[1] \in DOMAIN pre.convs
    /\ In(last.args[2], pre.convs[last.args[1]].participants)
    /\ convs[last.args[1]].participants = pre.convs[last.args[1]].participants

(***************************************************************************)
(* Reading the private histories.                                          *)
(***************************************************************************)
\* every message of every private history is an assistant message tagged
\* with the name of the agent that holds it
HistoriesOwnAnswers ==
    \A a \in DOMAIN agents :
       \A k \in 1..Len(agents[a].conversation_history) :
          /\ agents[a].conversation_history[k].role = "assistant"
          /\ agents[a].conversation_history[k].agent_id = a

\* m is in the log of a conversation the Orchestrator holds in memory
InMemoryLog(m) == \E id \in DOMAIN convs : In(m, convs[id].messages)

\* m is in the log of a conversation file, as load reads it
InDurableLog(m) ==
    \E id \in DOMAIN diskConv : In(m, ConversationLoad(diskConv, id).messages)

C32_DurableEqualsMemory ==
    pc = "idle" =>
       \A id \in DOMAIN convs :
          /\ id \in DOMAIN diskConv
          /\ ConversationLoad(diskConv, id) = convs[id]

(***************************************************************************)
(* C33: registering a name whose registered agent has a non-empty history  *)
(* puts an agent with an empty history in its place and leaves every       *)
(* history file as it was; a history file changes only when the history    *)
(* loop of a send_message reaches its name among the targets, and then     *)
(* becomes the history of the agent in memory; an Orchestrator             *)
(* constructed on the root loads the histories the files hold.             *)
(***************************************************************************)
C33_HistoryFileOutlivesRegistration ==
    [][ /\ ( /\ nops' # nops
             /\ last'.op = "register_agent"
             /\ HasAgent(agents, last'.args[1].name)
             /\ agents[last'.args[1].name].conversation_history # <<>> )
          => /\ agents'[last'.args[1].name].conversation_history = <<>>
             /\ diskHist' = diskHist
        /\ \A n \in DOMAIN diskHist :
              (n \notin DOMAIN diskHist' \/ diskHist'[n] # diskHist[n])
                 => /\ pc = "save_histories"
                    /\ call.i <= Len(call.agents_to_call)
                    /\ call.agents_to_call[call.i] = n
                    /\ diskHist'[n] = SaveHistory(Empty, agents[n])[n]
        /\ (nops' # nops /\ last'.op = "init")
              => \A n \in DOMAIN diskHist \cap DOMAIN diskCfg :
                    agents'[n].conversation_history = MessagesFromDicts(diskHist[n])
      ]_vars

\* A was registered again with another config and an Orchestrator was then
\* constructed: it holds A with the new config and the old history
C33_Witness ==
    /\ nops = 2
    /\ last.op = "init"
    /\ HasAgent(agents, "A")
    /\ agents["A"].config = OtherConfig("A")
    /\ agents["A"].conversation_history = <<Message("assistant", OkOutput, "A", clock)>>

====
